---- MODULE Spec2Model ----
(***************************************************************************)
(* The organisation registration page                                      *)
(* src/src/app/(auth-routes)/register/organisation/page.tsx                *)
(*                                                                         *)
(* The component Organisation holds React state (isLoading, apiUrl), the   *)
(* session delivered by useSession, the react-hook-form state of `form`    *)
(* (values, errors, isSubmitted) and two kinds of asynchronous work: the   *)
(* getApiUrl() call started by the mount effect and the axios.post started *)
(* by onSubmit.  Every event handler and every promise continuation is one *)
(* action.  React commits a state update before the next event is          *)
(* dispatched, so a handler reads the state the previous handlers wrote.   *)
(* `last` records the handler that ran last, the response it handled and   *)
(* the calls it made on the collaborators (toast, router.push, axios.post).*)
(***************************************************************************)
EXTENDS Integers, Sequences, FiniteSets, TLC

VARIABLES mounted, session, apiUrl, pendingFetches, resolverCalls,
          values, errors, isSubmitted, isLoading, inflight, last

vars == <<mounted, session, apiUrl, pendingFetches, resolverCalls,
          values, errors, isSubmitted, isLoading, inflight, last>>

(***************************************************************************)
(* Bounds of the model.                                                    *)
(***************************************************************************)
\* longest company name the user types
MaxNameLen == 2
\* longest `errors` list of a 422 body
MaxErrs == 2
\* cap of the resolver-call counter
MaxResolverCalls == 3

(***************************************************************************)
(* JavaScript values.                                                      *)
(***************************************************************************)
\* `undefined`, also what a template literal prints for it
Undefined == "undefined"

\* x || y on strings: x when truthy, else y
OrElse(x, y) == IF x \in {Undefined, ""} THEN y ELSE x

(***************************************************************************)
(* formSchema (lines 33-55) and the inputs of the form.                    *)
(***************************************************************************)
Fields == {"name", "email", "industry", "type", "country", "state", "address"}

NoError == "none"

Letters == {"a", "b", "c", "o", "A"}

\* where s holds character c
Positions(s, c) == {i \in 1..Len(s) : s[i] = c}

\* the labels of a domain are letters only, separated by single dots, and
\* the last label has at least two letters
IsDomain(d) ==
    /\ Len(d) >= 4
    /\ \A i \in 1..Len(d) : d[i] \in Letters \cup {"."}
    /\ d[1] # "." /\ d[Len(d)] # "."
    /\ \A i \in 1..(Len(d) - 1) : ~(d[i] = "." /\ d[i + 1] = ".")
    /\ Positions(d, ".") # {}
    /\ \A i \in Positions(d, ".") : i <= Len(d) - 2

\* z.string().email(): one "@", a local part that neither starts nor ends
\* with a dot and holds no "..", and a dotted domain
IsEmail(s) ==
    /\ Cardinality(Positions(s, "@")) = 1
    /\ LET at == CHOOSE i \in Positions(s, "@") : TRUE
           local == SubSeq(s, 1, at - 1)
           domain == SubSeq(s, at + 1, Len(s))
       IN  /\ Len(local) >= 1
           /\ \A i \in 1..Len(local) : local[i] \in Letters \cup {"."}
           /\ local[1] # "." /\ local[Len(local)] # "."
           /\ \A i \in 1..(Len(local) - 1) : ~(local[i] = "." /\ local[i + 1] = ".")
           /\ IsDomain(domain)

\* z.string().min(2) of the company name
NameMin == 2

nameOkNonEmpty(n) == Len(n) >= 1

nameOk(n) == Len(n) >= NameMin

\* the issues zod reports for the form values v, per field
formSchema(v) ==
    [f \in Fields |->
        CASE f = "name" -> IF nameOk(v.name) THEN NoError
                           ELSE "Company name must be at least 2 characters."
          [] f = "email" -> IF IsEmail(v.email) THEN NoError
                            ELSE "Company email must be a valid email address."
          [] f = "industry" -> IF Len(v.industry) >= 1 THEN NoError
                               ELSE "Please select an industry."
          [] f = "type" -> IF Len(v.type) >= 1 THEN NoError
                           ELSE "Please select an organization type."
          [] f = "country" -> IF Len(v.country) >= 1 THEN NoError
                              ELSE "Please select a country."
          [] f = "state" -> IF Len(v.state) >= 1 THEN NoError
                            ELSE "Please select a state."
          [] OTHER -> IF Len(v.address) >= 1 THEN NoError
                      ELSE "Please enter company address."]

\* zodResolver(formSchema): the values pass when no field has an issue
zodResolver(v) == \A f \in Fields : formSchema(v)[f] = NoError

\* useForm defaultValues (lines 83-91)
defaultValues ==
    [name |-> <<>>, email |-> <<>>, type |-> "", industry |-> "",
     country |-> "", state |-> "", address |-> ""]

\* what the user can type into the two checked text inputs
NameInputs == UNION {[1..n -> {"A"}] : n \in 0..MaxNameLen}

EmailInputs ==
    {<<>>, <<"a", "@", "b">>, <<"a", "@", "b", ".", "c">>,
     <<"a", "@", "b", ".", "c", "o">>}

\* the options of the four selects and the address input
FieldInputs(f) ==
    CASE f = "name" -> NameInputs
      [] f = "email" -> EmailInputs
      [] f = "industry" -> {"Technology"}
      [] f = "type" -> {"Entertainment"}
      [] f = "country" -> {"Nigeria"}
      [] f = "state" -> {"Lagos"}
      [] OTHER -> {"", "1 Main St"}

(***************************************************************************)
(* The collaborators: session, base-URL resolver, server responses.        *)
(***************************************************************************)
\* useSession() before the session has resolved: session?.user?.id and
\* session?.access_token are both undefined
NoSession == [user |-> [id |-> Undefined], access_token |-> Undefined]

Sessions == {[user |-> [id |-> "u1"], access_token |-> "t1"]}

\* what getApiUrl() resolves to
BaseUrl == "https://api.example"

\* the field names and messages a 422 body carries
ErrFields == {"email", "name"}

ServerMessages == {"taken"}

ErrPairs == [field : ErrFields, message : ServerMessages]

ErrLists == UNION {[1..n -> ErrPairs] : n \in 0..MaxErrs}

\* response.data.errors: no such key, a list of pairs, or a value that is
\* no list (an object keyed by field)
ErrorsValues ==
    {[kind |-> "absent", items |-> <<>>], [kind |-> "nonlist", items |-> <<>>]}
    \cup {[kind |-> "list", items |-> l] : l \in ErrLists}

NoData == [isNull |-> FALSE, errors |-> [kind |-> "absent", items |-> <<>>],
           message |-> Undefined]

\* the body `null`
NullData == [isNull |-> TRUE, errors |-> [kind |-> "absent", items |-> <<>>],
             message |-> Undefined]

\* how a POST can settle: 2xx, an error status with a body, or no response
Responses ==
    {[kind |-> "ok", status |-> 201, data |-> NoData]}
    \cup {[kind |-> "http", status |-> 422, data |-> [NoData EXCEPT !.errors = e]] :
            e \in ErrorsValues}
    \cup {[kind |-> "http", status |-> 422, data |-> NullData]}
    \cup {[kind |-> "http", status |-> 500, data |-> [NoData EXCEPT !.message = m]] :
            m \in {Undefined, "Server down"}}
    \cup {[kind |-> "http", status |-> 500, data |-> NullData]}
    \cup {[kind |-> "network", status |-> 0, data |-> NoData]}

NoResponse == [kind |-> "none", status |-> 0, data |-> NoData]

(***************************************************************************)
(* Calls on the collaborators.                                             *)
(***************************************************************************)
Toast(title, description, variant) ==
    [call |-> "toast", title |-> title, description |-> description,
     variant |-> variant]

Push(path) == [call |-> "router.push", path |-> path]

Post(req) == [call |-> "axios.post", req |-> req]

GetApiUrl == [call |-> "getApiUrl"]

\* the record of the handler that ran last
Ran(op, resp, effects) == [op |-> op, resp |-> resp, effects |-> effects]

\* a handler that called no collaborator
Quiet == Ran("none", NoResponse, <<>>)

(***************************************************************************)
(* The mount effect (lines 65-80).                                         *)
(***************************************************************************)
\* the identity of the toast function useToast() returns on a render
useToast(render) == "toast"

depsChangedAlways(prev, next) == TRUE

\* the dependency array [toast]: the effect runs again when a dependency
\* differs from the previous render's
depsChanged(prev, next) == prev # next

\* the getApiUrl() calls a re-render starts
EffectRuns ==
    IF mounted /\ resolverCalls < MaxResolverCalls
          /\ depsChanged(<<useToast(0)>>, <<useToast(1)>>)
    THEN 1 ELSE 0

\* a re-render of the mounted component after a state update
Render(fetchesLeft) ==
    /\ resolverCalls' = resolverCalls + EffectRuns
    /\ pendingFetches' = fetchesLeft + EffectRuns

(***************************************************************************)
(* The initial state: the component has mounted and its effect has called  *)
(* fetchApiUrl().                                                          *)
(***************************************************************************)
Init ==
    /\ mounted = TRUE
    /\ session = NoSession
    /\ apiUrl = ""
    /\ pendingFetches = 1
    /\ resolverCalls = 1
    /\ values = defaultValues
    /\ errors = [f \in Fields |-> NoError]
    /\ isSubmitted = FALSE
    /\ isLoading = FALSE
    /\ inflight = <<>>
    /\ last = Ran("mount", NoResponse, <<GetApiUrl>>)

(***************************************************************************)
(* useSession delivers the session.                                        *)
(***************************************************************************)
SessionResolved ==
    /\ mounted
    /\ session = NoSession
    /\ \E s \in Sessions : session' = s
    /\ Render(pendingFetches)
    /\ last' = Quiet
    /\ UNCHANGED <<mounted, apiUrl, values, errors, isSubmitted, isLoading, inflight>>

(***************************************************************************)
(* fetchApiUrl (lines 66-77): the two ways `await getApiUrl()` ends.       *)
(***************************************************************************)
\* setApiUrl(url); React drops a state update of an unmounted component
fetchApiUrlResolved ==
    /\ pendingFetches > 0
    /\ apiUrl' = IF mounted THEN BaseUrl ELSE apiUrl
    /\ Render(pendingFetches - 1)
    /\ last' = Quiet
    /\ UNCHANGED <<mounted, session, values, errors, isSubmitted, isLoading, inflight>>

FetchFailedToast == Toast("Error", "Failed to fetch API URL", "destructive")

fetchApiUrlRejected ==
    /\ pendingFetches > 0
    /\ pendingFetches' = pendingFetches - 1
    /\ last' = Ran("fetchApiUrl.catch", NoResponse, <<FetchFailedToast>>)
    /\ UNCHANGED <<mounted, session, apiUrl, resolverCalls, values, errors,
                   isSubmitted, isLoading, inflight>>

(***************************************************************************)
(* The form: field.onChange and form.handleSubmit(onSubmit).               *)
(***************************************************************************)
\* field.onChange(value) (lines 170, 190, 208, 235, 265, 288, 317).  With
\* the default modes of useForm the changed field is validated again once
\* the form has been submitted (reValidateMode onChange), not before.
fieldOnChange ==
    /\ mounted
    /\ \E f \in Fields : \E v \in FieldInputs(f) :
         /\ v # values[f]
         /\ values' = [values EXCEPT ![f] = v]
         /\ errors' = IF isSubmitted
                      THEN [errors EXCEPT ![f] = formSchema(values')[f]]
                      ELSE errors
    /\ Render(pendingFetches)
    /\ last' = Quiet
    /\ UNCHANGED <<mounted, session, apiUrl, isSubmitted, isLoading, inflight>>

\* the payload of onSubmit (lines 96-100)
payloadNoUserId(data) ==
    [name |-> data.name, email |-> data.email, industry |-> data.industry,
     type |-> data.type, country |-> data.country, state |-> data.state,
     address |-> data.address, user_id |-> Undefined, description |-> "n/a"]

payload(data) ==
    [name |-> data.name, email |-> data.email, industry |-> data.industry,
     type |-> data.type, country |-> data.country, state |-> data.state,
     address |-> data.address, user_id |-> session.user.id,
     description |-> "n/a"]

\* the request of axios.post (lines 102-106); a template literal is the
\* sequence of its parts
request(data) ==
    [url |-> <<apiUrl, "/api/v1/organizations">>,
     headers |-> [Authorization |-> <<"Bearer ", session.access_token>>],
     body |-> payload(data)]

isDisabledNever == FALSE

\* the prop isDisabled={isLoading} of the submit button (line 330)
isDisabled == isLoading

\* CustomButton: a disabled submit button dispatches no submit event
CustomButtonSubmits(disabled) == ~disabled

\* form.handleSubmit(onSubmit) (line 157): the resolver runs first; with
\* issues they become the field errors and onSubmit is not called; without,
\* the field errors are emptied and onSubmit runs up to its await
\* (lines 94-106)
handleSubmit ==
    /\ mounted
    /\ CustomButtonSubmits(isDisabled)
    /\ IF zodResolver(values)
       THEN /\ errors' = [f \in Fields |-> NoError]
            /\ isLoading' = TRUE
            /\ inflight' = Append(inflight, request(values))
            /\ last' = Ran("onSubmit", NoResponse, <<Post(request(values))>>)
            /\ UNCHANGED isSubmitted
       ELSE /\ errors' = formSchema(values)
            /\ isSubmitted' = TRUE
            /\ last' = Quiet
            /\ UNCHANGED <<isLoading, inflight>>
    /\ Render(pendingFetches)
    /\ UNCHANGED <<mounted, session, apiUrl, values>>

(***************************************************************************)
(* onSubmit after its await (lines 107-140).                               *)
(***************************************************************************)
SuccessToast ==
    Toast("Organization created successfully", "Continue to dashboard", Undefined)

onSuccessPushOnly == <<Push("/dashboard")>>

\* lines 107-111
onSuccess == <<SuccessToast, Push("/dashboard")>>

RECURSIVE setErrors(_, _)
\* validationErrors.forEach(err => form.setError(err.field, ...)) (117-124)
setErrors(errs, items) ==
    IF items = <<>> THEN errs
    ELSE setErrors([errs EXCEPT ![Head(items).field] = Head(items).message],
                   Tail(items))

\* form.clearErrors() (line 116)
clearErrors(errs) == [f \in Fields |-> NoError]

Outcome(threw, errs, effects) ==
    [threw |-> threw, errors |-> errs, effects |-> effects]

\* the catch block (lines 112-139).  Reading a property of null, or calling
\* forEach on a value that has none, throws a TypeError out of onSubmit.
onSubmitCatch(resp, errs) ==
    IF resp.kind = "http"
    THEN IF resp.status = 422
         THEN IF resp.data.isNull
              THEN Outcome(TRUE, errs, <<>>)
              ELSE IF resp.data.errors.kind = "nonlist"
                   THEN Outcome(TRUE, clearErrors(errs), <<>>)
                   ELSE Outcome(FALSE,
                                setErrors(clearErrors(errs), resp.data.errors.items),
                                <<>>)
         ELSE IF resp.data.isNull
              THEN Outcome(TRUE, errs, <<>>)
              ELSE Outcome(FALSE, errs,
                     <<Toast("Error occurred",
                             OrElse(resp.data.message,
                                    "Failed to submit the form. Please try again."),
                             Undefined)>>)
    ELSE Outcome(FALSE, errs,
           <<Toast("Error occured", "An unexpected error occurred.", Undefined)>>)

\* s without its i-th element
RemoveAt(s, i) == SubSeq(s, 1, i - 1) \o SubSeq(s, i + 1, Len(s))

\* the POST of a pending onSubmit settles with response resp.  A TypeError
\* leaves onSubmit before setIsLoading(false) (line 140); React drops the
\* state update of an unmounted component; handleSubmit marks the form
\* submitted when onSubmit returns (and, depending on the release of
\* react-hook-form, also when it throws).
onSubmitSettled ==
    /\ inflight # <<>>
    /\ \E i \in 1..Len(inflight) : \E resp \in Responses :
         LET out == IF resp.kind = "ok"
                    THEN Outcome(FALSE, errors, onSuccess)
                    ELSE onSubmitCatch(resp, errors)
         IN  /\ inflight' = RemoveAt(inflight, i)
             /\ errors' = out.errors
             /\ isLoading' = IF out.threw \/ ~mounted THEN isLoading ELSE FALSE
             /\ isSubmitted' \in (IF out.threw THEN {isSubmitted, TRUE} ELSE {TRUE})
             /\ last' = Ran("onSubmit.settled", resp, out.effects)
    /\ Render(pendingFetches)
    /\ UNCHANGED <<mounted, session, apiUrl, values>>

(***************************************************************************)
(* The page is left: the component unmounts.                               *)
(***************************************************************************)
Unmount ==
    /\ mounted
    /\ mounted' = FALSE
    /\ last' = Quiet
    /\ UNCHANGED <<session, apiUrl, pendingFetches, resolverCalls, values, errors,
                   isSubmitted, isLoading, inflight>>

Next ==
    \/ SessionResolved
    \/ fetchApiUrlResolved
    \/ fetchApiUrlRejected
    \/ fieldOnChange
    \/ handleSubmit
    \/ onSubmitSettled
    \/ Unmount

Spec == Init /\ [][Next]_vars

(***************************************************************************)
(* Properties.                                                             *)
(***************************************************************************)
\* the calls of one kind among the effects of the last handler
Calls(kind) == {i \in DOMAIN last.effects : last.effects[i].call = kind}

SettledWith(kinds) == last.op = "onSubmit.settled" /\ last.resp.kind \in kinds

\* C1: after any submission attempt settles isLoading is false again, and
\* isLoading is true only between the start of onSubmit and that settle:
\* on the mounted page isLoading holds exactly while a POST is pending.
C1_LoadingOnlyWhilePending ==
    mounted => (isLoading <=> inflight # <<>>)

\* the inputs of the model that are valid e-mail addresses
ValidEmails == {<<"a", "@", "b", ".", "c", "o">>}

\* the form values violate the schema as the specification states it
ViolatesSchema(v) ==
    \/ Len(v.name) < 2
    \/ v.email \notin ValidEmails
    \/ v.industry = "" \/ v.type = "" \/ v.country = "" \/ v.state = ""
    \/ v.address = ""

\* C2: while a field of the form violates the schema no step, a submit
\* attempt included, runs onSubmit: no POST is issued, none becomes pending
\* and isLoading does not become true.
C2_InvalidFormNeverSubmits ==
    [][ViolatesSchema(values) =>
         /\ Len(inflight') <= Len(inflight)
         /\ (isLoading' => isLoading)
         /\ last'.op # "onSubmit"
         /\ \A i \in DOMAIN last'.effects : last'.effects[i].call # "axios.post"]_vars

\* a submit attempt was made on a form that has never been valid (a select
\* cannot be emptied again): its issues are the field errors, nothing is
\* pending and isLoading is false
C2_Witness ==
    /\ isSubmitted /\ mounted
    /\ values.industry = "" /\ Len(values.name) = 1
    /\ errors = formSchema(values)
    /\ inflight = <<>> /\ ~isLoading

\* C3: after a submission ended in HTTP 422 the field errors are exactly
\* those of the pairs of the response, one per pair and none besides (none
\* at all when the body has no list `errors`): no earlier error survives.
C3_FieldErrorsAreTheResponses ==
    (last.op = "onSubmit.settled" /\ last.resp.status = 422) =>
        LET items == last.resp.data.errors.items
        IN  /\ \A i \in DOMAIN items : errors[items[i].field] = items[i].message
            /\ \A f \in Fields :
                 errors[f] # NoError => \E i \in DOMAIN items : items[i].field = f

\* C4: a 2xx response is followed by the success notification and then the
\* navigation to /dashboard, each once and in that order; no other handler
\* navigates.
C4_SuccessToastThenDashboard ==
    /\ SettledWith({"ok"}) =>
         last.effects = <<Toast("Organization created successfully",
                                "Continue to dashboard", Undefined),
                          Push("/dashboard")>>
    /\ ~SettledWith({"ok"}) => Calls("router.push") = {}

C4_Witness ==
    SettledWith({"ok"}) /\ Cardinality(Calls("router.push")) = 1 /\ ~isLoading

\* the fixed descriptions of the failure notification
Fallbacks ==
    {"Failed to submit the form. Please try again.", "An unexpected error occurred."}

\* C5: a submission that failed otherwise than with HTTP 422 has shown
\* exactly one failure notification, described by data.message when the
\* server sent one and by a fixed fallback string otherwise, and has set no
\* field error of the server.
C5_OtherFailureShowsOneToast ==
    (SettledWith({"http", "network"}) /\ last.resp.status # 422) =>
        /\ Len(last.effects) = 1
        /\ last.effects[1].call = "toast"
        /\ IF last.resp.data.message \in {Undefined, ""}
           THEN last.effects[1].description \in Fallbacks
           ELSE last.effects[1].description = last.resp.data.message
        /\ \A f \in Fields : errors[f] \notin ServerMessages

\* C6: a valid submit issues exactly one POST whose body is the seven form
\* fields unchanged plus the session's user id and description "n/a"; no
\* other handler, the settle of a response included, issues a POST.
C6_OnePostWithPayload ==
    /\ last.op = "onSubmit" =>
         /\ Len(last.effects) = 1
         /\ last.effects[1].call = "axios.post"
         /\ last.effects[1].req.body =
              [name |-> values.name, email |-> values.email,
               industry |-> values.industry, type |-> values.type,
               country |-> values.country, state |-> values.state,
               address |-> values.address, user_id |-> session.user.id,
               description |-> "n/a"]
         /\ inflight # <<>> /\ inflight[Len(inflight)] = last.effects[1].req
    /\ last.op # "onSubmit" => Calls("axios.post") = {}

C6_Witness ==
    /\ last.op = "onSubmit" /\ session \in Sessions
    /\ Len(inflight) = 1 /\ inflight[1].body.user_id = "u1"
    /\ inflight[1].body.name = values.name

\* C7: the resolver is called once per mount whatever re-renders follow; a
\* failed resolver shows one error notification, leaves the base URL empty
\* and leaves the form rendered and submittable.
C7_ResolverOnceAndFailureHarmless ==
    /\ [](resolverCalls = 1)
    /\ [](last.op = "fetchApiUrl.catch" =>
            /\ last.effects = <<Toast("Error", "Failed to fetch API URL", "destructive")>>
            /\ apiUrl = "")
    /\ [][last'.op = "fetchApiUrl.catch" =>
            /\ mounted' = mounted /\ isLoading' = isLoading
            /\ values' = values /\ apiUrl' = apiUrl]_vars

\* a valid form was submitted after the resolver had failed
C7_Witness ==
    /\ mounted /\ pendingFetches = 0 /\ apiUrl = ""
    /\ last.op = "onSubmit" /\ Len(inflight) = 1

\* C8: at most one POST is pending at any time, and isLoading is true as
\* long as one is.
C8_AtMostOneInFlight ==
    /\ Len(inflight) <= 1
    /\ inflight # <<>> => isLoading

\* a POST is pending while the form on the page is valid again
C8_Witness ==
    /\ mounted /\ Len(inflight) = 1 /\ isLoading
    /\ zodResolver(values) /\ last = Quiet

\* C9: every POST targets the resolved base URL followed by
\* /api/v1/organizations and carries the session's access token.
C9_PostTargetsResolvedUrlWithToken ==
    \A i \in DOMAIN inflight :
        /\ inflight[i].url = <<BaseUrl, "/api/v1/organizations">>
        /\ inflight[i].headers.Authorization \in
             {<<"Bearer ", s.access_token>> : s \in Sessions}

\* C10: a completion that arrives after the component unmounted shows no
\* notification and performs no navigation.
C10_NoEffectAfterUnmount ==
    ~mounted => last.effects = <<>>

====
